---- MODULE Spec2Model ----
(***************************************************************************)
(* Model of the asynchronous enrichment pipeline of markly:                *)
(*   backend/services/enrichment.py   (orchestrator, worker pool)          *)
(*   backend/services/openai_service.py (synthesizer)                      *)
(*   backend/routes/bookmarks.py      (create / update / retry / import /  *)
(*                                     stop / skip request handlers)       *)
(* The store (supabase) is modelled as three tables; every store call is   *)
(* atomic and accepted.  A run of _enrich_bookmark is a worker process     *)
(* whose steps are cut at the store calls that other processes can race.   *)
(***************************************************************************)
EXTENDS Integers, Sequences, FiniteSets, TLC

(***************************************************************************)
(* Bounds of the model                                                     *)
(***************************************************************************)
NumUrls == 2
MaxBookmarks == 2
MaxBatch == 2
MaxJobs == 1
MaxRetries == 1
MaxUpdates == 1
MaxOver == 2
MaxFlagged == 12
NumRequests == 4

(***************************************************************************)
(* Program constants                                                       *)
(***************************************************************************)
max_workers == 3
ErrorLimit == 500
ItemErrorLimit == 200
ContentExtractLimit == 50000
InsertChunk == 200
ExtractedContentLen == 15000
PromptContentLimit == 10000
CleanTitleLimit == 60
SummaryLimit == 500
TagLimit == 5
QuoteLimit == 300
MaxQuotes == 3
TypeErrorLen == 99
JobCanceledLen == 12
AdvisoryLen == 83

(***************************************************************************)
(* Values                                                                  *)
(***************************************************************************)
NULL == "NULL"
NOID == 0
None == <<>>
Some(v) == <<v>>
IsNone(o) == o = <<>>
Val(o) == o[1]

Min(a, b) == IF a <= b THEN a ELSE b

Urls == 1..NumUrls
Workers == 1..max_workers

\* a text is kept as what it says and how long it is
Text(m, n) == [msg |-> m, len |-> n]
\* Python's s[:n]
Slice(t, n) == [msg |-> t.msg, len |-> Min(t.len, n)]

\* an exception is its type name and its str(); error_msg is "Type: str"
ErrorMsg(e) == Text(e.msg, e.len)

TypeErrorExc == Text("TypeError: AzureOpenAIService.enrich_bookmark() got an unexpected keyword argument 'use_nano_model'", TypeErrorLen)
ServiceErrorExc == Text("APIError: chat completion failed", 32)
JobCanceledMsg == Text("Job canceled", JobCanceledLen)
AdvisoryMsg == Text("Scraping failed: content could not be extracted. Please review AI guessed metadata.", AdvisoryLen)

\* urlparse(url).netloc.replace("www.", ""), and the favicon-service URL
\* built from it; both are kept as the URL they are derived from
Domain(u) == Some(u)
Favicon(u) == Some(u)

VARIABLES
  bookmarks,      \* table bookmarks: sequence of rows, id = index
  import_jobs,    \* table import_jobs: sequence of rows, id = index
  items,          \* table import_job_items: sequence of rows, id = index
  queue,          \* work queue of the ThreadPoolExecutor (FIFO)
  workers,        \* the pool's threads: position and locals of a run
  embed_pending,  \* pre-enriched bookmarks whose embedding thread is running
  retries,        \* number of retry requests served (bounded)
  updates,        \* number of PATCH requests served (bounded)
  chat,           \* what the chat-completion service does when it is called
  stopped_mid,    \* history: jobs stopped while a run of theirs was past
                  \* the second cancellation checkpoint
  import_response,\* what the latest POST /import answered
  synth_call,     \* a call of AzureOpenAIService.enrich_bookmark on its own
  extract_call,   \* a call of ContentExtractor.extract on its own
  pool,           \* the module global _executor, the pools created, and the
                  \* request threads inside enrich_bookmark_async
  create_call,    \* the last POST /api/bookmarks request and its answer
  import_call     \* an import_bookmarks request followed statement by statement

\* the calls studied on their own, outside the running system
pure_vars == <<synth_call, extract_call, pool, create_call, import_call>>

vars == <<bookmarks, import_jobs, items, queue, workers, embed_pending, retries, updates, chat, stopped_mid, import_response, synth_call, extract_call, pool, create_call, import_call>>

BookmarkIds == 1..Len(bookmarks)
JobIds == 1..Len(import_jobs)
ItemIds == 1..Len(items)

(***************************************************************************)
(* Synthesizer: AzureOpenAIService.enrich_bookmark                         *)
(***************************************************************************)
\* parameters of the method (besides cls)
EnrichBookmarkParams == {"url", "title", "content", "user_notes"}

\* keywords both call sites in enrichment.py pass
SynthCallKwargs == {"url", "title", "content", "user_notes", "use_nano_model"}

\* what the chat-completion service does when it is called
Answers == {"json", "error"}

\* the record validated from a parsed answer, or the defaults record
Validated(answer, title) ==
  IF answer = "json"
    THEN [clean_title |-> "llm title", ai_summary |-> "llm summary",
          auto_tags |-> Some(<<"llm-tag">>)]
    ELSE [clean_title |-> IF title = NULL THEN "Untitled" ELSE title,
          ai_summary |-> "No summary available.",
          auto_tags |-> Some(<<>>)]

\* the call: binding the keywords comes first, then the service
EnrichBookmarkCall(kwargs, answer, title) ==
  IF ~(kwargs \subseteq EnrichBookmarkParams)
    THEN [raised |-> TRUE, exc |-> TypeErrorExc, enriched |-> Validated("badjson", title)]
    ELSE IF answer = "error"
      THEN [raised |-> TRUE, exc |-> ServiceErrorExc, enriched |-> Validated("badjson", title)]
      ELSE [raised |-> FALSE, exc |-> TypeErrorExc, enriched |-> Validated(answer, title)]

(***************************************************************************)
(* Content extraction as seen by analyze_link                              *)
(***************************************************************************)
ExtractOutcomes == {"content", "nocontent", "raises"}

\* the extracted dict analyze_link ends up with (lines 26-46)
Extracted(outcome, u) ==
  IF outcome = "content"
    THEN [title |-> "page title", content |-> Some(ExtractedContentLen),
          favicon_url |-> Favicon(u), thumbnail_url |-> "thumb", domain |-> Domain(u)]
    ELSE IF outcome = "nocontent"
      THEN [title |-> NULL, content |-> None,
            favicon_url |-> Favicon(u), thumbnail_url |-> NULL, domain |-> Domain(u)]
      ELSE [title |-> "url", content |-> None,
            favicon_url |-> Favicon(u), thumbnail_url |-> NULL, domain |-> Domain(u)]

(***************************************************************************)
(* Rows                                                                    *)
(***************************************************************************)
Task(bid, nano, job, item, src) ==
  [bid |-> bid, nano |-> nano, job |-> job, item |-> item, src |-> src]

IdleWorker ==
  [pc |-> "idle", bid |-> NOID, nano |-> FALSE, job |-> NOID, item |-> NOID,
   src |-> "none", user_description |-> NULL, original_title |-> NULL,
   scrape |-> FALSE, outcome |-> "none", text_empty |-> FALSE,
   cur_completed |-> 0, cur_failed |-> 0, enqueue_count |-> 0]

\* supabase.table(t).update(patch).eq("id", id): the fields of patch replace
\* the row's, the other fields stay
Patch(row, patch) ==
  [f \in DOMAIN row |-> IF f \in DOMAIN patch THEN patch[f] ELSE row[f]]

UpdateRow(table, id, patch) ==
  [i \in DOMAIN table |-> IF i = id THEN Patch(table[i], patch) ELSE table[i]]

\* no answer yet
NoResponse ==
  [status |-> 0, job_id |-> NOID, imported |-> 0, skipped |-> 0,
   enrichment_queued |-> 0, skipped_count |-> 0]

\* no call in progress
NoCall == [pc |-> "none"]

\* the pool is not looked at
NoPool == [pc |-> "none"]

\* no POST request recorded
NoCreate == [pc |-> "none"]

\* no import followed
NoImport == [pc |-> "none"]

Init ==
  /\ bookmarks = <<>>
  /\ import_jobs = <<>>
  /\ items = <<>>
  /\ queue = <<>>
  /\ workers = [w \in Workers |-> IdleWorker]
  /\ embed_pending = {}
  /\ retries = 0
  /\ updates = 0
  /\ chat \in Answers
  /\ stopped_mid = {}
  /\ import_response = NoResponse
  /\ synth_call = NoCall
  /\ extract_call = NoCall
  /\ pool = NoPool
  /\ create_call = NoCreate
  /\ import_call = NoImport

(***************************************************************************)
(* routes/bookmarks.py: create_bookmark                                    *)
(***************************************************************************)
\* request bodies: a description or none, and the curator's fields: absent,
\* all three present, or the three keys present with ai_summary null
CreateBodies == { [description |-> NULL, payload |-> "plain"],
                  [description |-> "desc line", payload |-> "plain"],
                  [description |-> NULL, payload |-> "pre_enriched"],
                  [description |-> NULL, payload |-> "pre_enriched_null"] }

\* all(k in data for k in [...]): only the keys' presence counts
IsPreEnriched(payload) == payload \in {"pre_enriched", "pre_enriched_null"}

BookmarkData(u, desc, payload) ==
  IF IsPreEnriched(payload)
    THEN [url |-> u, domain |-> Domain(u), original_title |-> "url",
          clean_title |-> "curator title",
          ai_summary |-> IF payload = "pre_enriched" THEN "curator summary" ELSE NULL,
          auto_tags |-> Some(<<"curator-tag">>),
          favicon_url |-> None, thumbnail_url |-> NULL,
          content_extract |-> None, embedding |-> NULL,
          raw_notes |-> NULL, user_description |-> desc,
          enrichment_status |-> "completed", enrichment_error |-> None,
          import_job_id |-> NOID]
    ELSE [url |-> u, domain |-> Domain(u),
          original_title |-> IF desc # NULL THEN desc ELSE "url",
          clean_title |-> IF desc # NULL THEN desc ELSE "url",
          ai_summary |-> NULL, auto_tags |-> None,
          favicon_url |-> Favicon(u), thumbnail_url |-> NULL,
          content_extract |-> None, embedding |-> NULL,
          raw_notes |-> NULL, user_description |-> desc,
          enrichment_status |-> "pending", enrichment_error |-> None,
          import_job_id |-> NOID]

UrlExists(u) == \E b \in BookmarkIds : bookmarks[b].url = u

\* every inserted bookmark gets a job, pre-enriched or not
InsertAndTrigger_Always(u, desc, payload) ==
  LET bid == Len(bookmarks) + 1 IN
    /\ bookmarks' = Append(bookmarks, BookmarkData(u, desc, payload))
    /\ queue' = Append(queue, Task(bid, FALSE, NOID, NOID, "create"))
    /\ embed_pending' = IF IsPreEnriched(payload) THEN embed_pending \cup {bid}
                        ELSE embed_pending

\* lines 143-170: the insert, then enrich_bookmark_async for a bookmark that
\* is not pre-enriched, the embedding thread for one that is
InsertAndTrigger(u, desc, payload) ==
  LET bid == Len(bookmarks) + 1 IN
    /\ bookmarks' = Append(bookmarks, BookmarkData(u, desc, payload))
    /\ IF IsPreEnriched(payload)
         THEN /\ embed_pending' = embed_pending \cup {bid}
              /\ queue' = queue
         ELSE /\ queue' = Append(queue, Task(bid, FALSE, NOID, NOID, "create"))
              /\ embed_pending' = embed_pending

create_bookmark(u, desc, payload) ==
  /\ Len(bookmarks) < MaxBookmarks
  /\ ~UrlExists(u)
  /\ InsertAndTrigger(u, desc, payload)
  /\ UNCHANGED <<import_jobs, items, workers, retries, updates, chat, stopped_mid, import_response, pure_vars>>

\* generate_async_embedding: the pre-enriched bookmark's embedding, written by
\* a thread of its own; any failure is swallowed
generate_async_embedding(b, ok) ==
  /\ b \in embed_pending
  /\ embed_pending' = embed_pending \ {b}
  /\ bookmarks' = IF ok THEN UpdateRow(bookmarks, b, [embedding |-> "vector"]) ELSE bookmarks
  /\ UNCHANGED <<import_jobs, items, queue, workers, retries, updates, chat, stopped_mid, import_response, pure_vars>>

(***************************************************************************)
(* routes/bookmarks.py: create_bookmark, the whole route with its          *)
(* rejections, one request at a time                                       *)
(***************************************************************************)
\* a text that is no url, such as "not-a-url"
NotAUrl == 0

\* a url as sent: its text, and whether blanks surround it
RawUrls == [text : Urls \cup {NotAUrl}, padded : BOOLEAN]

\* url.strip()
Strip(raw) == raw.text

\* validators.url
ValidUrl(u) == u \in Urls

\* request bodies: no JSON body, a body without the url key, or a url with a
\* description and the curator's fields as in CreateBodies
CreateRequests ==
  { [kind |-> "no_body"], [kind |-> "no_url"] } \cup
  { [kind |-> "url", url |-> raw, description |-> b.description, payload |-> b.payload] :
      raw \in RawUrls, b \in CreateBodies }

\* the store's answer to the insert: the row, no data, or an exception
InsertOutcomes == {"row", "no_data", "raises"}

Answer(data, status, msg) == [pc |-> "answered", data |-> data, status |-> status, msg |-> msg]

InitCreate ==
  /\ bookmarks = <<>>
  /\ import_jobs = <<>>
  /\ items = <<>>
  /\ queue = <<>>
  /\ workers = [w \in Workers |-> IdleWorker]
  /\ embed_pending = {}
  /\ retries = 0
  /\ updates = 0
  /\ chat = "json"
  /\ stopped_mid = {}
  /\ import_response = NoResponse
  /\ synth_call = NoCall
  /\ extract_call = NoCall
  /\ pool = NoPool
  /\ create_call = [pc |-> "serving"]
  /\ import_call = NoImport

create_bookmark_route(data, insert) ==
  /\ create_call.pc # "none"
  /\ IF data.kind \in {"no_body", "no_url"}
       THEN /\ create_call' = Answer(data, 400, "URL is required")
            /\ UNCHANGED <<bookmarks, queue, embed_pending>>
     ELSE IF ~ValidUrl(Strip(data.url))
       THEN /\ create_call' = Answer(data, 400, "Invalid URL format")
            /\ UNCHANGED <<bookmarks, queue, embed_pending>>
     ELSE IF UrlExists(Strip(data.url))
       THEN /\ create_call' = Answer(data, 200, "Bookmark already exists")
            /\ UNCHANGED <<bookmarks, queue, embed_pending>>
     ELSE IF insert = "raises"
       THEN /\ create_call' = Answer(data, 500, "Failed to create bookmark: ")
            /\ UNCHANGED <<bookmarks, queue, embed_pending>>
     ELSE IF insert = "no_data"
       THEN /\ create_call' = Answer(data, 500, "Failed to create bookmark")
            /\ UNCHANGED <<bookmarks, queue, embed_pending>>
     ELSE /\ Len(bookmarks) < MaxBookmarks
          /\ InsertAndTrigger(Strip(data.url), data.description, data.payload)
          /\ create_call' = Answer(data, 201, "")
  /\ UNCHANGED <<import_jobs, items, workers, retries, updates, chat, stopped_mid,
                 import_response, synth_call, extract_call, pool, import_call>>

NextCreate == \E data \in CreateRequests, insert \in InsertOutcomes : create_bookmark_route(data, insert)

SpecCreate == InitCreate /\ [][NextCreate]_vars

(***************************************************************************)
(* routes/bookmarks.py: update_bookmark                                    *)
(***************************************************************************)
allowed_fields == {"clean_title", "ai_summary", "auto_tags", "raw_notes",
                   "user_description", "content_type", "intent_type", "technical_level"}

\* request bodies of PATCH
UpdateBodies == { [ai_summary |-> NULL, user_description |-> "desc line",
                   enrichment_status |-> "completed"] }

update_data(data) == [k \in (DOMAIN data) \cap allowed_fields |-> data[k]]

update_bookmark(b, data) ==
  /\ updates < MaxUpdates
  /\ b \in BookmarkIds
  /\ DOMAIN update_data(data) # {}
  /\ bookmarks' = UpdateRow(bookmarks, b, update_data(data))
  /\ updates' = updates + 1
  /\ UNCHANGED <<import_jobs, items, queue, workers, embed_pending, retries, chat, stopped_mid, import_response, pure_vars>>

(***************************************************************************)
(* routes/bookmarks.py: retry_enrichment, and                              *)
(* services/enrichment.py: retry_failed_enrichment                         *)
(***************************************************************************)
\* the route checks that the bookmark exists, nothing else
RetryAllowed(b) == b \in BookmarkIds

retry_failed_enrichment(b) ==
  /\ bookmarks' = UpdateRow(bookmarks, b,
                    [enrichment_status |-> "pending", enrichment_error |-> None])
  /\ queue' = Append(queue, Task(b, FALSE, NOID, NOID,
                    IF bookmarks[b].enrichment_status = "failed"
                      THEN "retry_failed" ELSE "retry_other"))

retry_enrichment(b) ==
  /\ retries < MaxRetries
  /\ RetryAllowed(b)
  /\ retry_failed_enrichment(b)
  /\ retries' = retries + 1
  /\ UNCHANGED <<import_jobs, items, workers, embed_pending, updates, chat, stopped_mid, import_response, pure_vars>>

(***************************************************************************)
(* services/enrichment.py: helpers of a run                                *)
(***************************************************************************)
NOCOUNT == -1

\* job_res.data.get(k, 0) or 0
OrZero(n) == IF n = NOCOUNT THEN 0 ELSE n

_is_job_canceled(j) ==
  IF j \in JobIds THEN import_jobs[j].status = "canceled" ELSE FALSE

_update_item_status(tbl, i, status, error) ==
  UpdateRow(tbl, i,
    [status |-> status, error |-> error,
     started_at |-> IF status = "processing" THEN "ts" ELSE NULL,
     finished_at |-> IF status \in {"completed", "failed", "skipped", "canceled"}
                       THEN "ts" ELSE NULL])

SetWorker(w, rec) == workers' = [workers EXCEPT ![w] = rec]

(***************************************************************************)
(* services/enrichment.py: _enrich_bookmark, step by step                  *)
(***************************************************************************)
\* a pool thread takes the oldest task; lines 85-97: first cancellation
\* checkpoint, then status processing
RunStart(w) ==
  /\ workers[w].pc = "idle"
  /\ \A v \in Workers : v < w => workers[v].pc # "idle"
  /\ queue # <<>>
  /\ LET t == Head(queue) IN
       /\ queue' = Tail(queue)
       /\ IF t.job # NOID /\ _is_job_canceled(t.job)
            THEN /\ items' = IF t.item # NOID
                               THEN _update_item_status(items, t.item, "canceled", Some(JobCanceledMsg))
                               ELSE items
                 /\ UNCHANGED <<bookmarks, workers>>
            ELSE /\ bookmarks' = UpdateRow(bookmarks, t.bid, [enrichment_status |-> "processing"])
                 /\ SetWorker(w, [IdleWorker EXCEPT
                        !.pc = IF t.item # NOID /\ t.job # NOID THEN "mark_item" ELSE "fetch",
                        !.bid = t.bid, !.nano = t.nano, !.job = t.job,
                        !.item = t.item, !.src = t.src])
                 /\ UNCHANGED items
  /\ UNCHANGED <<import_jobs, embed_pending, retries, updates, chat, stopped_mid, import_response, pure_vars>>

\* lines 99-101
RunMarkItem(w) ==
  /\ workers[w].pc = "mark_item"
  /\ items' = _update_item_status(items, workers[w].item, "processing", None)
  /\ import_jobs' = UpdateRow(import_jobs, workers[w].job, [current_item_id |-> workers[w].item])
  /\ SetWorker(w, [workers[w] EXCEPT !.pc = "fetch"])
  /\ UNCHANGED <<bookmarks, queue, embed_pending, retries, updates, chat, stopped_mid, import_response, pure_vars>>

\* the row's description is read but the run scrapes all the same
RunFetch_Scrape(w) ==
  /\ workers[w].pc = "fetch"
  /\ LET bookmark == bookmarks[workers[w].bid] IN
       IF workers[w].job # NOID /\ _is_job_canceled(workers[w].job)
         THEN SetWorker(w, [workers[w] EXCEPT !.pc = "cancel2"])
         ELSE SetWorker(w, [workers[w] EXCEPT !.pc = "synth",
                  !.user_description = bookmark.user_description,
                  !.original_title = bookmark.original_title,
                  !.scrape = TRUE])
  /\ UNCHANGED <<bookmarks, import_jobs, items, queue, embed_pending, retries, updates, chat, stopped_mid, import_response, pure_vars>>

\* lines 103-146 up to the external calls: fetch the row, choose the branch,
\* second cancellation checkpoint on the scraping branch
RunFetch(w) ==
  /\ workers[w].pc = "fetch"
  /\ LET bookmark == bookmarks[workers[w].bid] IN
       IF bookmark.user_description # NULL
         THEN SetWorker(w, [workers[w] EXCEPT !.pc = "synth",
                  !.user_description = bookmark.user_description,
                  !.original_title = bookmark.original_title,
                  !.scrape = FALSE])
         ELSE IF workers[w].job # NOID /\ _is_job_canceled(workers[w].job)
           THEN SetWorker(w, [workers[w] EXCEPT !.pc = "cancel2"])
           ELSE SetWorker(w, [workers[w] EXCEPT !.pc = "synth",
                    !.original_title = bookmark.original_title,
                    !.scrape = TRUE])
  /\ UNCHANGED <<bookmarks, import_jobs, items, queue, embed_pending, retries, updates, chat, stopped_mid, import_response, pure_vars>>

\* lines 141-145
RunCancel2(w) ==
  /\ workers[w].pc = "cancel2"
  /\ items' = IF workers[w].item # NOID
                THEN _update_item_status(items, workers[w].item, "canceled", Some(JobCanceledMsg))
                ELSE items
  /\ bookmarks' = UpdateRow(bookmarks, workers[w].bid,
                    [enrichment_status |-> "failed", enrichment_error |-> Some(JobCanceledMsg)])
  /\ SetWorker(w, IdleWorker)
  /\ UNCHANGED <<import_jobs, queue, embed_pending, retries, updates, chat, stopped_mid, import_response, pure_vars>>

\* the extracted dict of the run: lines 119-126, or analyze_link's when the
\* extractor does x
RunExtracted(w, x) ==
  IF ~workers[w].scrape
    THEN [title |-> workers[w].original_title,
          content |-> Some(1),
          favicon_url |-> bookmarks[workers[w].bid].favicon_url,
          thumbnail_url |-> NULL,
          domain |-> bookmarks[workers[w].bid].domain]
    ELSE Extracted(x, bookmarks[workers[w].bid].url)

\* a or b of Python, for texts
PyOr(a, b) == IF a \notin {NULL, ""} THEN a ELSE b

\* the content keyword of the Synthesizer call of the run whose locals are
\* wrec: line 132 with the dict of lines 119-126, or analyze_link's line 53
\* when the extractor does x
ContentArg(wrec, x) ==
  IF ~wrec.scrape
    THEN PyOr(wrec.user_description, wrec.user_description)
    ELSE IF x = "content" THEN "page text" ELSE NULL

\* lines 154-172
CompletedUpdate(extracted, enriched, original_title) ==
  [domain |-> extracted.domain,
   original_title |-> IF extracted.title # NULL THEN extracted.title ELSE original_title,
   favicon_url |-> extracted.favicon_url,
   thumbnail_url |-> extracted.thumbnail_url,
   content_extract |-> IF IsNone(extracted.content)
                         THEN Some(0)
                         ELSE Some(Min(Val(extracted.content), ContentExtractLimit)),
   clean_title |-> enriched.clean_title,
   ai_summary |-> enriched.ai_summary,
   auto_tags |-> enriched.auto_tags,
   enrichment_status |-> "completed",
   enrichment_error |-> IF IsNone(extracted.content) THEN Some(AdvisoryMsg) ELSE None]

\* lines 182-189: " ".join(filter(None, [...])).strip() is empty
EmbeddingTextEmpty(enriched, raw_notes) ==
  /\ enriched.clean_title \in {NULL, ""}
  /\ enriched.ai_summary \in {NULL, ""}
  /\ Val(enriched.auto_tags) = <<>>
  /\ raw_notes \in {NULL, ""}

\* the handler with the enrichment_error key left out of the update
FailedUpdate_NoError(e) ==
  [enrichment_status |-> "failed"]

\* the handler cutting the text too short
FailedUpdate_Short(e) ==
  [enrichment_status |-> "failed",
   enrichment_error |-> Some(Slice(ErrorMsg(e), 50))]

\* lines 207-217
FailedUpdate(e) ==
  [enrichment_status |-> "failed",
   enrichment_error |-> Some(Slice(ErrorMsg(e), ErrorLimit))]

\* lines 129-135 / 147-151 (the Synthesizer call), then either the write of
\* lines 154-175 or the handler of lines 207-222
RunSynthesize(w) ==
  /\ workers[w].pc = "synth"
  /\ \E x \in ExtractOutcomes :
     LET r == EnrichBookmarkCall(SynthCallKwargs, chat, workers[w].original_title) IN
       IF r.raised
         THEN /\ bookmarks' = UpdateRow(bookmarks, workers[w].bid, FailedUpdate(r.exc))
              /\ items' = IF workers[w].item # NOID
                            THEN _update_item_status(items, workers[w].item, "failed",
                                     Some(Slice(ErrorMsg(r.exc), ItemErrorLimit)))
                            ELSE items
              /\ SetWorker(w, IF workers[w].job # NOID
                                THEN [workers[w] EXCEPT !.pc = "incr_read", !.outcome = "failed"]
                                ELSE IdleWorker)
         ELSE /\ bookmarks' = UpdateRow(bookmarks, workers[w].bid,
                                CompletedUpdate(RunExtracted(w, x), r.enriched, workers[w].original_title))
              /\ SetWorker(w, [workers[w] EXCEPT !.pc = "embed",
                     !.text_empty = EmbeddingTextEmpty(r.enriched, bookmarks[workers[w].bid].raw_notes)])
              /\ UNCHANGED items
  /\ UNCHANGED <<import_jobs, queue, embed_pending, retries, updates, chat, stopped_mid, import_response, pure_vars>>

\* lines 241-255: the counters as read
RunIncrRead(w) ==
  /\ workers[w].pc = "incr_read"
  /\ IF workers[w].job \in JobIds
       THEN LET job == import_jobs[workers[w].job] IN
              SetWorker(w, [workers[w] EXCEPT !.pc = "incr_write",
                  !.cur_completed = OrZero(job.enrich_completed),
                  !.cur_failed = OrZero(job.enrich_failed),
                  !.enqueue_count = OrZero(job.enqueue_enrich_count)])
       ELSE SetWorker(w, IdleWorker)
  /\ UNCHANGED <<bookmarks, import_jobs, items, queue, embed_pending, retries, updates, chat, stopped_mid, import_response, pure_vars>>

\* lines 257-270: the counters and the status as written
RunIncrWrite(w) ==
  /\ workers[w].pc = "incr_write"
  /\ LET current_completed == workers[w].cur_completed
                                + (IF workers[w].outcome = "completed" THEN 1 ELSE 0)
         current_failed == workers[w].cur_failed
                                + (IF workers[w].outcome = "failed" THEN 1 ELSE 0)
         new_status == IF workers[w].enqueue_count > 0
                          /\ current_completed + current_failed >= workers[w].enqueue_count
                         THEN "completed" ELSE "processing"
     IN import_jobs' = UpdateRow(import_jobs, workers[w].job,
                         [enrich_completed |-> current_completed,
                          enrich_failed |-> current_failed,
                          status |-> new_status])
  /\ SetWorker(w, IdleWorker)
  /\ UNCHANGED <<bookmarks, items, queue, embed_pending, retries, updates, chat, stopped_mid, import_response, pure_vars>>

\* lines 179-205: the embedding step, then the item's and the job's progress.
\* No run gets here: RunSynthesize never leaves by its second branch, because
\* SynthCallKwargs is not within EnrichBookmarkParams.  The step is therefore
\* no disjunct of Next.
EmbedOutcomes == {"saved", "call_fails", "write_fails"}

RunEmbed(w) ==
  /\ workers[w].pc = "embed"
  /\ \E o \in EmbedOutcomes :
       bookmarks' = IF ~workers[w].text_empty /\ o = "saved"
                      THEN UpdateRow(bookmarks, workers[w].bid, [embedding |-> "vector"])
                      ELSE bookmarks
  /\ items' = IF workers[w].item # NOID
                THEN _update_item_status(items, workers[w].item, "completed", None)
                ELSE items
  /\ SetWorker(w, IF workers[w].job # NOID
                    THEN [workers[w] EXCEPT !.pc = "incr_read", !.outcome = "completed"]
                    ELSE IdleWorker)
  /\ UNCHANGED <<import_jobs, queue, embed_pending, retries, updates, chat, stopped_mid, import_response, pure_vars>>

(***************************************************************************)
(* routes/bookmarks.py: import_bookmarks                                   *)
(***************************************************************************)
\* chunked(seq, size), as the sequence of the chunks
RECURSIVE chunked(_, _)
chunked(q, size) ==
  IF q = <<>> THEN <<>>
  ELSE IF Len(q) <= size THEN <<q>>
  ELSE <<SubSeq(q, 1, size)>> \o chunked(SubSeq(q, size + 1, Len(q)), size)

\* str(t).strip().lower().replace(" ", "-")
NormTag(t) == IF t = "Tag A" THEN "tag-a" ELSE t
NormTags(tags) == [k \in DOMAIN tags |-> NormTag(tags[k])]

CandTags == {<<>>}

\* the normalized candidates of a request: valid URL, title, tags, enrich flag
Candidates == [url : Urls, tags : CandTags, enrich : BOOLEAN]

\* payload.get("use_nano_model", True): the default
ImportNano == {TRUE}

Batches == UNION {[1..n -> Candidates] : n \in 1..MaxBatch}

\* lines 461-470
ImportRecord(item, job_id) ==
  [url |-> item.url, domain |-> Domain(item.url), original_title |-> "candidate title",
   clean_title |-> "candidate title", ai_summary |-> NULL,
   auto_tags |-> Some(NormTags(item.tags)),
   favicon_url |-> Favicon(item.url), thumbnail_url |-> NULL,
   content_extract |-> None, embedding |-> NULL,
   raw_notes |-> NULL, user_description |-> NULL,
   enrichment_status |-> IF item.enrich THEN "pending" ELSE "completed",
   enrichment_error |-> None,
   import_job_id |-> IF item.enrich THEN job_id ELSE NOID]

NewJob(total, nano) ==
  [status |-> "processing", total |-> total, use_nano_model |-> nano,
   imported_count |-> NOCOUNT, skipped_count |-> NOCOUNT,
   enqueue_enrich_count |-> NOCOUNT, enrich_completed |-> NOCOUNT,
   enrich_failed |-> NOCOUNT, current_item_id |-> NOID, last_error |-> NULL]

NewItem(job_id, bid, u) ==
  [job_id |-> job_id, bookmark_id |-> bid, url |-> u, status |-> "pending",
   error |-> None, started_at |-> NULL, finished_at |-> NULL]

\* lines 436-474: the candidates that survive the existence check
to_insert(normalized) == SelectSeq(normalized, LAMBDA item : ~UrlExists(item.url))

\* lines 445-450: the candidates found among the existing URLs
skipped_count(normalized) == Len(SelectSeq(normalized, LAMBDA item : UrlExists(item.url)))

enrich_candidates(normalized) ==
  {to_insert(normalized)[k].url : k \in {k \in DOMAIN to_insert(normalized) :
                                           to_insert(normalized)[k].enrich}}

\* lines 476-505, the loop over the chunks of to_insert.  st is the loop's
\* state: the two tables, the ids inserted so far, to_enqueue (ids of rows)
\* and item_ids_by_url of the latest round.
RECURSIVE InsertLoop(_, _, _, _)
InsertLoop(chunks, st, job_id, candidates) ==
  IF chunks = <<>> THEN st
  ELSE LET chunk == Head(chunks)
           base == Len(st.bookmarks)
           bm == st.bookmarks \o [k \in DOMAIN chunk |-> ImportRecord(chunk[k], job_id)]
           inserted == st.inserted \o [k \in DOMAIN chunk |-> base + k]
           to_enqueue == SelectSeq(inserted, LAMBDA id : bm[id].url \in candidates)
           ibase == Len(st.items)
           its == st.items \o [k \in DOMAIN to_enqueue |->
                                 NewItem(job_id, to_enqueue[k], bm[to_enqueue[k]].url)]
           \* the dict keeps the last id written for a URL
           ids_by_url == [u \in {bm[to_enqueue[k]].url : k \in DOMAIN to_enqueue} |->
                            LET written == {k \in DOMAIN to_enqueue : bm[to_enqueue[k]].url = u}
                            IN ibase + CHOOSE k \in written : \A k2 \in written : k2 <= k]
       IN InsertLoop(Tail(chunks),
                     [bookmarks |-> bm, items |-> its, inserted |-> inserted,
                      to_enqueue |-> to_enqueue, item_ids_by_url |-> ids_by_url,
                      bound |-> TRUE],
                     job_id, candidates)

import_bookmarks(normalized, nano) ==
  /\ Len(import_jobs) < MaxJobs
  /\ LET job_id == Len(import_jobs) + 1
         st0 == [bookmarks |-> bookmarks, items |-> items, inserted |-> <<>>,
                 to_enqueue |-> <<>>, item_ids_by_url |-> <<>>, bound |-> FALSE]
         st == InsertLoop(chunked(to_insert(normalized), InsertChunk), st0, job_id,
                          enrich_candidates(normalized))
         job == NewJob(Len(normalized), nano)
     IN IF ~st.bound
          \* no chunk, so to_enqueue_ids was never assigned: line 511 raises
          \* NameError and the request ends with the job row as inserted
          THEN /\ import_jobs' = Append(import_jobs, job)
               /\ import_response' = [NoResponse EXCEPT !.status = 500,
                                        !.skipped_count = skipped_count(normalized)]
               /\ UNCHANGED <<bookmarks, items, queue>>
          ELSE /\ bookmarks' = st.bookmarks
               /\ items' = st.items
               /\ import_jobs' = Append(import_jobs,
                    Patch(job, [imported_count |-> Len(st.inserted),
                                skipped_count |-> Len(normalized) - Len(st.inserted),
                                enqueue_enrich_count |-> Len(st.to_enqueue),
                                status |-> IF st.to_enqueue # <<>>
                                             THEN "processing" ELSE "completed"]))
               /\ queue' = queue \o [k \in DOMAIN st.to_enqueue |->
                     Task(st.to_enqueue[k], nano, job_id,
                          st.item_ids_by_url[st.bookmarks[st.to_enqueue[k]].url], "import")]
               /\ import_response' =
                    [status |-> 202, job_id |-> job_id,
                     imported |-> Len(st.inserted),
                     skipped |-> Len(normalized) - Len(st.inserted),
                     enrichment_queued |-> Len(st.to_enqueue),
                     skipped_count |-> skipped_count(normalized)]
  /\ UNCHANGED <<workers, embed_pending, retries, updates, chat, stopped_mid, pure_vars>>

(***************************************************************************)
(* routes/bookmarks.py: import_bookmarks statement by statement, with the  *)
(* pool's workers running between its statements                           *)
(***************************************************************************)
InitOrder ==
  /\ bookmarks = <<>>
  /\ import_jobs = <<>>
  /\ items = <<>>
  /\ queue = <<>>
  /\ workers = [w \in Workers |-> IdleWorker]
  /\ embed_pending = {}
  /\ retries = 0
  /\ updates = 0
  /\ chat \in Answers
  /\ stopped_mid = {}
  /\ import_response = NoResponse
  /\ synth_call = NoCall
  /\ extract_call = NoCall
  /\ pool = NoPool
  /\ create_call = NoCreate
  /\ import_call = [pc |-> "idle"]

OrderUnchanged == UNCHANGED <<workers, embed_pending, retries, updates, chat, stopped_mid,
                              synth_call, extract_call, pool, create_call>>

\* lines 424-505: the job row, the existence check, the inserts and the items
ImportInsert(normalized, nano) ==
  /\ import_call.pc \in {"idle", "done"}
  /\ Len(import_jobs) < MaxJobs
  /\ LET job_id == Len(import_jobs) + 1
         st0 == [bookmarks |-> bookmarks, items |-> items, inserted |-> <<>>,
                 to_enqueue |-> <<>>, item_ids_by_url |-> <<>>, bound |-> FALSE]
         st == InsertLoop(chunked(to_insert(normalized), InsertChunk), st0, job_id,
                          enrich_candidates(normalized))
     IN /\ import_jobs' = Append(import_jobs, NewJob(Len(normalized), nano))
        /\ bookmarks' = st.bookmarks
        /\ items' = st.items
        /\ import_call' = [pc |-> "counts", job_id |-> job_id, nano |-> nano,
                           total |-> Len(normalized), skipped_count |-> skipped_count(normalized),
                           inserted |-> st.inserted, to_enqueue |-> st.to_enqueue,
                           item_ids_by_url |-> st.item_ids_by_url, bound |-> st.bound,
                           next |-> 1]
  /\ UNCHANGED <<queue, import_response>>
  /\ OrderUnchanged

\* the answer of the request once its last job is submitted
ImportAnswer(c) ==
  [status |-> 202, job_id |-> c.job_id, imported |-> Len(c.inserted),
   skipped |-> c.total - Len(c.inserted), enrichment_queued |-> Len(c.to_enqueue),
   skipped_count |-> c.skipped_count]

\* lines 507-513: the counts and the status; NameError when no chunk ran
ImportWriteCounts ==
  /\ import_call.pc = "counts"
  /\ IF ~import_call.bound
       THEN /\ import_call' = [import_call EXCEPT !.pc = "done"]
            /\ import_response' = [NoResponse EXCEPT !.status = 500,
                                     !.skipped_count = import_call.skipped_count]
            /\ UNCHANGED import_jobs
       ELSE /\ import_jobs' = UpdateRow(import_jobs, import_call.job_id,
                 [imported_count |-> Len(import_call.inserted),
                  skipped_count |-> import_call.total - Len(import_call.inserted),
                  enqueue_enrich_count |-> Len(import_call.to_enqueue),
                  status |-> IF import_call.to_enqueue # <<>> THEN "processing" ELSE "completed"])
            /\ IF import_call.next > Len(import_call.to_enqueue)
                 THEN /\ import_call' = [import_call EXCEPT !.pc = "done"]
                      /\ import_response' = ImportAnswer(import_call)
                 ELSE /\ import_call' = [import_call EXCEPT !.pc = "submit"]
                      /\ UNCHANGED import_response
  /\ UNCHANGED <<bookmarks, items, queue>>
  /\ OrderUnchanged

\* the loop of lines 516-518 entered before the update of lines 508-513
ImportSubmit_BeforeCounts ==
  /\ import_call.pc \in {"counts", "submit"}
  /\ import_call.bound
  /\ import_call.next <= Len(import_call.to_enqueue)
  /\ LET row == import_call.to_enqueue[import_call.next] IN
       queue' = Append(queue, Task(row, import_call.nano, import_call.job_id,
                                   import_call.item_ids_by_url[bookmarks[row].url], "import"))
  /\ IF import_call.pc = "submit" /\ import_call.next = Len(import_call.to_enqueue)
       THEN /\ import_call' = [import_call EXCEPT !.pc = "done", !.next = @ + 1]
            /\ import_response' = ImportAnswer(import_call)
       ELSE /\ import_call' = [import_call EXCEPT !.next = @ + 1]
            /\ UNCHANGED import_response
  /\ UNCHANGED <<bookmarks, import_jobs, items>>
  /\ OrderUnchanged

\* lines 516-518: one enrich_bookmark_async of the loop; after the last one
\* the request answers
ImportSubmit ==
  /\ import_call.pc = "submit"
  /\ import_call.next <= Len(import_call.to_enqueue)
  /\ LET row == import_call.to_enqueue[import_call.next] IN
       queue' = Append(queue, Task(row, import_call.nano, import_call.job_id,
                                   import_call.item_ids_by_url[bookmarks[row].url], "import"))
  /\ IF import_call.next = Len(import_call.to_enqueue)
       THEN /\ import_call' = [import_call EXCEPT !.pc = "done", !.next = @ + 1]
            /\ import_response' = ImportAnswer(import_call)
       ELSE /\ import_call' = [import_call EXCEPT !.next = @ + 1]
            /\ UNCHANGED import_response
  /\ UNCHANGED <<bookmarks, import_jobs, items>>
  /\ OrderUnchanged

NextOrder ==
  \/ \E batch \in Batches, nano \in ImportNano :
        /\ Len(bookmarks) + Len(to_insert(batch)) <= MaxBookmarks
        /\ ImportInsert(batch, nano)
  \/ ImportWriteCounts
  \/ ImportSubmit
  \/ \E w \in Workers : RunStart(w)
  \/ \E w \in Workers : RunMarkItem(w)
  \/ \E w \in Workers : RunFetch(w)
  \/ \E w \in Workers : RunSynthesize(w)
  \/ \E w \in Workers : RunIncrRead(w)
  \/ \E w \in Workers : RunIncrWrite(w)

SpecOrder == InitOrder /\ [][NextOrder]_vars

(***************************************************************************)
(* routes/bookmarks.py: stop_import_job, skip_import_item                  *)
(***************************************************************************)
\* the run of worker w is past its last cancellation checkpoint
PastCheckpoints(w) == workers[w].pc \in {"synth", "incr_read", "incr_write"}

stop_import_job(j) ==
  /\ j \in JobIds
  /\ import_jobs' = UpdateRow(import_jobs, j,
                      [status |-> "canceled", last_error |-> "Manually canceled"])
  /\ items' = [i \in DOMAIN items |->
                 IF items[i].job_id = j /\ items[i].status = "pending"
                   THEN Patch(items[i], [status |-> "canceled", error |-> Some(Text("Canceled", 8))])
                   ELSE items[i]]
  /\ stopped_mid' = IF \E w \in Workers : workers[w].job = j /\ PastCheckpoints(w)
                      THEN stopped_mid \cup {j} ELSE stopped_mid
  /\ UNCHANGED <<bookmarks, queue, workers, embed_pending, retries, updates, chat, import_response, pure_vars>>

skip_import_item(j, i) ==
  /\ j \in JobIds
  /\ i \in ItemIds
  /\ items' = IF items[i].job_id = j /\ items[i].status \in {"pending", "processing"}
                THEN UpdateRow(items, i, [status |-> "skipped",
                                          error |-> Some(Text("Manually skipped", 16)),
                                          finished_at |-> "ts"])
                ELSE items
  /\ import_jobs' = IF import_jobs[j].current_item_id = i
                      THEN UpdateRow(import_jobs, j, [current_item_id |-> NOID])
                      ELSE import_jobs
  /\ UNCHANGED <<bookmarks, queue, workers, embed_pending, retries, updates, chat, stopped_mid, import_response, pure_vars>>

(***************************************************************************)
(* The system                                                              *)
(***************************************************************************)
Next ==
  \/ \E u \in Urls, data \in CreateBodies : create_bookmark(u, data.description, data.payload)
  \/ \E b \in BookmarkIds, ok \in BOOLEAN : generate_async_embedding(b, ok)
  \/ \E b \in BookmarkIds, data \in UpdateBodies : update_bookmark(b, data)
  \/ \E b \in BookmarkIds : retry_enrichment(b)
  \/ \E batch \in Batches, nano \in ImportNano :
        /\ Len(bookmarks) + Len(to_insert(batch)) <= MaxBookmarks
        /\ import_bookmarks(batch, nano)
  \/ \E j \in JobIds : stop_import_job(j)
  \/ \E j \in JobIds, i \in ItemIds : skip_import_item(j, i)
  \/ \E w \in Workers : RunStart(w)
  \/ \E w \in Workers : RunMarkItem(w)
  \/ \E w \in Workers : RunFetch(w)
  \/ \E w \in Workers : RunCancel2(w)
  \/ \E w \in Workers : RunSynthesize(w)
  \/ \E w \in Workers : RunIncrRead(w)
  \/ \E w \in Workers : RunIncrWrite(w)

Spec == Init /\ [][Next]_vars

(***************************************************************************)
(* Imports of batches around the size of one insert chunk                  *)
(***************************************************************************)
\* n candidates of n different new URLs, the first m flagged for enrichment
LargeBatch(n, m) ==
  [k \in 1..n |-> [url |-> k, tags |-> <<>>, enrich |-> k <= m]]

LargeSizes == (InsertChunk - 1)..(InsertChunk + MaxOver)
FlaggedCounts == 0..MaxFlagged

NextChunks ==
  \E n \in LargeSizes, nano \in ImportNano :
    \E m \in FlaggedCounts \cup {n} :
       import_bookmarks(LargeBatch(n, m), nano)

SpecChunks == Init /\ [][NextChunks]_vars

(***************************************************************************)
(* AzureOpenAIService.enrich_bookmark on its own: the call with the        *)
(* method's parameters, for the texts the model can answer                 *)
(***************************************************************************)
\* Python values: the type, str(value), and the elements of a list
PyAbsent == [t |-> "absent", txt |-> Text("", 0), elems |-> <<>>]
PyNone == [t |-> "none", txt |-> Text("None", 4), elems |-> <<>>]
PyInt == [t |-> "int", txt |-> Text("5", 1), elems |-> <<>>]
PyStr(m, n) == [t |-> "str", txt |-> Text(m, n), elems |-> <<>>]
PyList(q) == [t |-> "list", txt |-> Text("[..]", 4), elems |-> q]

\* bool(value)
Truthy(v) ==
  \/ v.t = "int"
  \/ v.t = "str" /\ v.txt.len > 0
  \/ v.t = "list" /\ v.elems # <<>>

\* s.lower() and s.replace(" ", "-") on the texts used here
Lower(m) ==
  CASE m = "Tag A" -> "tag a"
    [] m = "Tutorial" -> "tutorial"
    [] m = "Advanced" -> "advanced"
    [] m = "None" -> "none"
    [] OTHER -> m

Hyphenate(m) == IF m = "tag a" THEN "tag-a" ELSE m

\* str(x)[:n]
StrCut(v, n) == Slice(v.txt, n)

\* dict.get(key, default)
Get(result, key, default) ==
  IF result[key].t = "absent" THEN default ELSE result[key]

\* lines 296-301
_validate_enum(value, allowed, default) ==
  IF ~Truthy(value)
    THEN [raised |-> FALSE, value |-> default]
    ELSE IF value.t # "str"
      THEN [raised |-> TRUE, value |-> default]       \* value.lower(): AttributeError
      ELSE IF Lower(value.txt.msg) \in allowed
        THEN [raised |-> FALSE, value |-> Lower(value.txt.msg)]
        ELSE [raised |-> FALSE, value |-> default]

IntentTypes == {"reference", "tutorial", "inspiration", "deep-dive", "tool"}
TechnicalLevels == {"beginner", "intermediate", "advanced", "general"}
ContentTypes == {"article", "documentation", "video", "tool", "paper", "other"}

\* Python's q[:n] on a list
Take(q, n) == SubSeq(q, 1, Min(Len(q), n))

\* what the model's message can be: no text, text that is not JSON, JSON that
\* is not an object, or an object in which each key is absent or has a value
TitleAnswers == {PyAbsent, PyNone, PyStr("llm title", 40), PyStr("long llm title", 80)}
SummaryAnswers == {PyAbsent, PyNone, PyStr("llm summary", 300), PyStr("long llm summary", 600)}
TagAnswers == {PyAbsent, PyNone, PyInt, PyList(<<>>),
               PyList(<<PyStr("Tag A", 5)>>),
               PyList(<<PyStr("ml", 2), PyNone, PyStr("Tag A", 5), PyStr("ml", 2),
                        PyStr("ai", 2), PyStr("Tag A", 5)>>)}
IntentAnswers == {PyAbsent, PyNone, PyStr("Tutorial", 8), PyStr("bogus", 5), PyInt}
LevelAnswers == {PyAbsent, PyStr("Advanced", 8)}
ContentTypeAnswers == {PyAbsent, PyInt}
QuoteAnswers == {PyAbsent, PyNone,
                 PyList(<<PyStr("quote", 400), PyStr("quote", 20), PyInt, PyStr("quote", 20)>>)}

JsonObjects ==
  [clean_title : TitleAnswers, ai_summary : SummaryAnswers, auto_tags : TagAnswers,
   intent_type : IntentAnswers, technical_level : LevelAnswers,
   content_type : ContentTypeAnswers, key_quotes : QuoteAnswers]

NoObject ==
  [clean_title |-> PyAbsent, ai_summary |-> PyAbsent, auto_tags |-> PyAbsent,
   intent_type |-> PyAbsent, technical_level |-> PyAbsent,
   content_type |-> PyAbsent, key_quotes |-> PyAbsent]

ModelAnswers ==
  {[kind |-> k, obj |-> NoObject] : k \in {"no_text", "not_json", "json_array", "json_null"}}
    \cup {[kind |-> "json_object", obj |-> o] : o \in JsonObjects}

\* the title argument: None, or a text
TitleArgs == {PyNone, PyStr("page title", 30), PyStr("long page title", 90)}

\* the content argument: None or the length of the text
ContentArgs == {None, Some(5000), Some(ExtractedContentLen)}

\* lines 84-86: the content as put into the prompt
PromptContent(content) ==
  IF ~IsNone(content) /\ Val(content) > PromptContentLimit
    THEN Some(PromptContentLimit + 3)
    ELSE content

\* lines 125-133: the defaults when the text is not JSON
Defaults(title) ==
  [clean_title |-> IF Truthy(title) THEN PyStr(title.txt.msg, Min(title.txt.len, CleanTitleLimit))
                                    ELSE PyStr("Untitled", 8),
   ai_summary |-> PyStr("No summary available.", 21),
   auto_tags |-> PyList(<<>>),
   intent_type |-> PyStr("reference", 9),
   technical_level |-> PyStr("general", 7),
   content_type |-> PyStr("article", 7),
   key_quotes |-> PyList(<<>>)]

NoRecord ==
  [clean_title |-> Text("", 0), ai_summary |-> Text("", 0), auto_tags |-> <<>>,
   intent_type |-> "", technical_level |-> "", content_type |-> "", key_quotes |-> <<>>]

Raise(name) == [raised |-> TRUE, exc |-> name, validated |-> NoRecord]

\* lines 135-158: the validated record, or the exception of the first
\* expression that raises
validate(result, title) ==
  LET tags == Get(result, "auto_tags", PyList(<<>>))
      quotes == Get(result, "key_quotes", PyList(<<>>))
      intent == _validate_enum(Get(result, "intent_type", PyNone), IntentTypes, "reference")
      level == _validate_enum(Get(result, "technical_level", PyNone), TechnicalLevels, "general")
      ctype == _validate_enum(Get(result, "content_type", PyNone), ContentTypes, "article")
  IN IF tags.t # "list" THEN Raise("TypeError")
     ELSE IF intent.raised \/ level.raised \/ ctype.raised THEN Raise("AttributeError")
     ELSE IF quotes.t # "list" THEN Raise("TypeError")
     ELSE [raised |-> FALSE, exc |-> "",
           validated |->
             [clean_title |-> StrCut(Get(result, "clean_title",
                                  IF Truthy(title) THEN title ELSE PyStr("Untitled", 8)),
                                  CleanTitleLimit),
              ai_summary |-> StrCut(Get(result, "ai_summary", PyStr("", 0)), SummaryLimit),
              auto_tags |-> Take([k \in DOMAIN tags.elems |->
                                    Hyphenate(Lower(tags.elems[k].txt.msg))], TagLimit),
              intent_type |-> intent.value,
              technical_level |-> level.value,
              content_type |-> ctype.value,
              key_quotes |-> Take([k \in DOMAIN quotes.elems |->
                                     StrCut(quotes.elems[k], QuoteLimit)], MaxQuotes)]]

\* lines 119-158
enrich_bookmark(title, content, answer) ==
  CASE answer.kind = "no_text" -> Raise("TypeError")          \* json.loads(None)
    [] answer.kind = "not_json" -> validate(Defaults(title), title)
    [] answer.kind \in {"json_array", "json_null"} -> Raise("AttributeError")  \* result.get
    [] OTHER -> validate(answer.obj, title)

NoResult == [raised |-> FALSE, exc |-> "", validated |-> NoRecord]

InitSynth ==
  /\ bookmarks = <<>>
  /\ import_jobs = <<>>
  /\ items = <<>>
  /\ queue = <<>>
  /\ workers = [w \in Workers |-> IdleWorker]
  /\ embed_pending = {}
  /\ retries = 0
  /\ updates = 0
  /\ chat = "json"
  /\ stopped_mid = {}
  /\ import_response = NoResponse
  /\ extract_call = NoCall
  /\ pool = NoPool
  /\ create_call = NoCreate
  /\ import_call = NoImport
  /\ \E t \in TitleArgs, c \in ContentArgs, a \in ModelAnswers :
       synth_call = [pc |-> "called", title |-> t, content |-> c, answer |-> a,
                     prompt_content |-> None, result |-> NoResult]

SynthReturns ==
  /\ synth_call.pc = "called"
  /\ LET r == enrich_bookmark(synth_call.title, synth_call.content, synth_call.answer)
     IN synth_call' = [synth_call EXCEPT
                         !.pc = IF r.raised THEN "raised" ELSE "returned",
                         !.prompt_content = PromptContent(synth_call.content),
                         !.result = r]
  /\ UNCHANGED <<bookmarks, import_jobs, items, queue, workers, embed_pending, retries,
                 updates, chat, stopped_mid, import_response, extract_call, pool, create_call, import_call>>

NextSynth == SynthReturns

SpecSynth == InitSynth /\ [][NextSynth]_vars

(***************************************************************************)
(* ContentExtractor.extract on its own                                     *)
(***************************************************************************)
\* a field of the result: None or a text; bool(value)
TruthyOpt(o) == ~IsNone(o) /\ Val(o).len > 0

\* the URL of the call: with and without "www.", without a host, and one
\* urlparse refuses
UrlKinds ==
  { [kind |-> "www", netloc |-> Text("www.example.com", 15)],
    [kind |-> "plain", netloc |-> Text("example.org", 11)],
    [kind |-> "no_host", netloc |-> Text("", 0)],
    [kind |-> "invalid", netloc |-> Text("", 0)] }

WellFormed(url) == url.kind \in {"www", "plain"}

\* netloc.replace("www.", "")
StripWww(t) == IF t.msg = "www.example.com" THEN Text("example.com", 11) ELSE t

\* lines 44-48, 160-161
ParseDomain(url) == IF url.kind = "invalid" THEN None ELSE Some(StripWww(url.netloc))

GoogleFavicon(domain) == Some(Text("https://www.google.com/s2/favicons", 48 + domain.len))

EmptyResult ==
  [title |-> None, description |-> None, content |-> None,
   favicon_url |-> None, thumbnail_url |-> None, domain |-> None]

\* what the reader API does: a full answer, an answer with empty fields, an
\* answer whose content is null, a body that is not JSON, an HTTP error
\* status, a timeout
JinaOutcomes == {"full", "empty", "content_null", "not_json", "http_error", "timeout"}
JinaFails(o) == o \in {"content_null", "not_json", "http_error", "timeout"}

\* what fetching the page does: a page with everything, a page with nothing
\* to find, an HTTP error status, a timeout
PageOutcomes == {"full", "bare", "http_error", "timeout"}
PageFails(o) == o \in {"http_error", "timeout"}

\* the reader strategy without raise_for_status(): the body of an error
\* answer is read like any other
_extract_via_jina_NoStatusCheck(o) ==
  CASE o = "full" ->
         [EmptyResult EXCEPT !.title = Some(Text("jina title", 10)),
                             !.description = Some(Text("jina description", 16)),
                             !.content = Some(Text("jina content", ExtractedContentLen))]
    [] o = "empty" -> [EmptyResult EXCEPT !.content = Some(Text("", 0))]
    [] o = "http_error" ->
         [EmptyResult EXCEPT !.content = Some(Text("error body", 10))]
    [] OTHER -> EmptyResult

\* lines 81-109: the dict returned; an absent key is None here
_extract_via_jina(o) ==
  CASE o = "full" ->
         [EmptyResult EXCEPT !.title = Some(Text("jina title", 10)),
                             !.description = Some(Text("jina description", 16)),
                             !.content = Some(Text("jina content", ExtractedContentLen))]
    [] o = "empty" -> [EmptyResult EXCEPT !.content = Some(Text("", 0))]
    [] OTHER -> EmptyResult

\* lines 157-180
extract_favicon(url, has_icon) ==
  IF url.kind = "invalid" THEN None
  ELSE IF has_icon THEN Some(Text("page icon", 30))
  ELSE GoogleFavicon(StripWww(url.netloc))

\* lines 112-154
_extract_via_beautifulsoup(url, o) ==
  CASE o = "full" ->
         [EmptyResult EXCEPT !.title = Some(Text("page title", 10)),
                             !.description = Some(Text("meta description", 16)),
                             !.thumbnail_url = Some(Text("og image", 8)),
                             !.favicon_url = extract_favicon(url, TRUE),
                             !.content = Some(Text("page text", ExtractedContentLen))]
    [] o = "bare" -> [EmptyResult EXCEPT !.favicon_url = extract_favicon(url, FALSE)]
    [] OTHER -> EmptyResult

\* line 69
MergeKey(key, result, res) ==
  IF TruthyOpt(res[key]) /\ (~TruthyOpt(result[key]) \/ key = "content")
    THEN res[key] ELSE result[key]

\* lines 68-70
Merge(result, res) ==
  [title |-> MergeKey("title", result, res),
   description |-> MergeKey("description", result, res),
   content |-> MergeKey("content", result, res),
   favicon_url |-> MergeKey("favicon_url", result, res),
   thumbnail_url |-> MergeKey("thumbnail_url", result, res),
   domain |-> MergeKey("domain", result, res)]

\* lines 74-76
FaviconFallback(result) ==
  IF ~TruthyOpt(result.favicon_url) /\ TruthyOpt(result.domain)
    THEN [result EXCEPT !.favicon_url = GoogleFavicon(Val(result.domain))]
    ELSE result

StrategyResult(c, strategy) ==
  IF strategy = "jina" THEN _extract_via_jina(c.jina)
                       ELSE _extract_via_beautifulsoup(c.url, c.page)

\* a page can be fetched only from a well-formed URL
ExtractCalls ==
  {c \in [pc : {"called"}, url : UrlKinds, jina_key : BOOLEAN, jina : JinaOutcomes,
          page : PageOutcomes, futures : {{}}, merged : {<<>>}, result : {EmptyResult}] :
     /\ ~WellFormed(c.url) => c.page = "timeout"
     /\ ~c.jina_key => c.jina = "timeout"}

InitExtract ==
  /\ bookmarks = <<>>
  /\ import_jobs = <<>>
  /\ items = <<>>
  /\ queue = <<>>
  /\ workers = [w \in Workers |-> IdleWorker]
  /\ embed_pending = {}
  /\ retries = 0
  /\ updates = 0
  /\ chat = "json"
  /\ stopped_mid = {}
  /\ import_response = NoResponse
  /\ synth_call = NoCall
  /\ pool = NoPool
  /\ create_call = NoCreate
  /\ import_call = NoImport
  /\ extract_call \in ExtractCalls

\* lines 34-60: the domain, then the strategies are submitted
ExtractSubmit ==
  /\ extract_call.pc = "called"
  /\ extract_call' = [extract_call EXCEPT
       !.pc = "collecting",
       !.result = [EmptyResult EXCEPT !.domain = ParseDomain(extract_call.url)],
       !.futures = IF extract_call.jina_key THEN {"jina", "beautifulsoup"}
                                            ELSE {"beautifulsoup"}]
  /\ UNCHANGED <<bookmarks, import_jobs, items, queue, workers, embed_pending, retries,
                 updates, chat, stopped_mid, import_response, synth_call, pool, create_call, import_call>>

\* lines 63-72: the next future to complete, whichever it is
ExtractCollect(strategy) ==
  /\ extract_call.pc = "collecting"
  /\ strategy \in extract_call.futures
  /\ extract_call' = [extract_call EXCEPT
       !.futures = extract_call.futures \ {strategy},
       !.merged = Append(extract_call.merged, strategy),
       !.result = Merge(extract_call.result, StrategyResult(extract_call, strategy))]
  /\ UNCHANGED <<bookmarks, import_jobs, items, queue, workers, embed_pending, retries,
                 updates, chat, stopped_mid, import_response, synth_call, pool, create_call, import_call>>

\* lines 74-78
ExtractReturn ==
  /\ extract_call.pc = "collecting"
  /\ extract_call.futures = {}
  /\ extract_call' = [extract_call EXCEPT
       !.pc = "returned",
       !.result = FaviconFallback(extract_call.result)]
  /\ UNCHANGED <<bookmarks, import_jobs, items, queue, workers, embed_pending, retries,
                 updates, chat, stopped_mid, import_response, synth_call, pool, create_call, import_call>>

NextExtract ==
  \/ ExtractSubmit
  \/ \E strategy \in {"jina", "beautifulsoup"} : ExtractCollect(strategy)
  \/ ExtractReturn

SpecExtract == InitExtract /\ [][NextExtract]_vars

(***************************************************************************)
(* services/enrichment.py: get_executor and enrich_bookmark_async, called  *)
(* by request threads of the server                                        *)
(***************************************************************************)
Requests == 1..NumRequests

\* executors are numbered in the order of their creation; 0 is None
InitPool ==
  /\ bookmarks = <<>>
  /\ import_jobs = <<>>
  /\ items = <<>>
  /\ queue = <<>>
  /\ workers = [w \in Workers |-> IdleWorker]
  /\ embed_pending = {}
  /\ retries = 0
  /\ updates = 0
  /\ chat = "json"
  /\ stopped_mid = {}
  /\ import_response = NoResponse
  /\ synth_call = NoCall
  /\ extract_call = NoCall
  /\ create_call = NoCreate
  /\ import_call = NoImport
  /\ pool = [pc |-> "serving",
             _executor |-> 0,
             created |-> 0,
             req |-> [r \in Requests |-> [pc |-> "start", executor |-> 0]],
             queued |-> [e \in Requests |-> 0],
             running |-> [e \in Requests |-> 0]]

PoolUnchanged ==
  UNCHANGED <<bookmarks, import_jobs, items, queue, workers, embed_pending, retries,
              updates, chat, stopped_mid, import_response, synth_call, extract_call,
              create_call, import_call>>

\* line 64: if _executor is None
GetExecutorTest(r) ==
  /\ pool.pc = "serving"
  /\ pool.req[r].pc = "start"
  /\ pool' = [pool EXCEPT !.req[r].pc = IF pool._executor = 0 THEN "create" ELSE "return"]
  /\ PoolUnchanged

\* line 65: _executor = ThreadPoolExecutor(max_workers=3)
GetExecutorCreate(r) ==
  /\ pool.pc = "serving"
  /\ pool.req[r].pc = "create"
  /\ pool' = [pool EXCEPT !.created = pool.created + 1,
                          !._executor = pool.created + 1,
                          !.req[r].pc = "return"]
  /\ PoolUnchanged

\* line 66 and line 71: return _executor
GetExecutorReturn(r) ==
  /\ pool.pc = "serving"
  /\ pool.req[r].pc = "return"
  /\ pool' = [pool EXCEPT !.req[r].pc = "submit", !.req[r].executor = pool._executor]
  /\ PoolUnchanged

\* line 72: executor.submit(...); the request thread goes on at once
ExecutorSubmit(r) ==
  /\ pool.pc = "serving"
  /\ pool.req[r].pc = "submit"
  /\ pool' = [pool EXCEPT !.req[r].pc = "done",
                          !.queued[pool.req[r].executor] = @ + 1]
  /\ PoolUnchanged

\* a thread of executor e takes a job: the executor has max_workers threads
JobStarts(e) ==
  /\ pool.pc = "serving"
  /\ pool.queued[e] > 0
  /\ pool.running[e] < max_workers
  /\ pool' = [pool EXCEPT !.queued[e] = @ - 1, !.running[e] = @ + 1]
  /\ PoolUnchanged

JobEnds(e) ==
  /\ pool.pc = "serving"
  /\ pool.running[e] > 0
  /\ pool' = [pool EXCEPT !.running[e] = @ - 1]
  /\ PoolUnchanged

NextPool ==
  \/ \E r \in Requests : GetExecutorTest(r)
  \/ \E r \in Requests : GetExecutorCreate(r)
  \/ \E r \in Requests : GetExecutorReturn(r)
  \/ \E r \in Requests : ExecutorSubmit(r)
  \/ \E e \in Requests : JobStarts(e)
  \/ \E e \in Requests : JobEnds(e)

SpecPool == InitPool /\ [][NextPool]_vars

(***************************************************************************)
(* Properties                                                              *)
(***************************************************************************)
Failed(b) == bookmarks[b].enrichment_status = "failed"
Completed(b) == bookmarks[b].enrichment_status = "completed"

\* worker w takes the step of RunSynthesize
SynthStep(w) == workers[w].pc = "synth" /\ workers'[w].pc # "synth"

\* worker w takes a task whose batch it finds canceled (first checkpoint)
CanceledAtStart ==
  /\ queue # <<>>
  /\ queue' = Tail(queue)
  /\ Head(queue).job # NOID
  /\ _is_job_canceled(Head(queue).job)

JobItems(j) == {i \in ItemIds : items[i].job_id = j}

\* the bookmarks inserted for job j have pairwise different URLs
JobDistinctUrls(j) ==
  \A i1, i2 \in JobItems(j) : items[i1].url = items[i2].url => i1 = i2

\* C1: every bookmark whose enrichment_status is completed has non-null
\* clean_title, ai_summary and auto_tags.
C1_CompletedHasMetadata ==
  \A b \in BookmarkIds :
    Completed(b) => /\ bookmarks[b].clean_title # NULL
                    /\ bookmarks[b].ai_summary # NULL
                    /\ ~IsNone(bookmarks[b].auto_tags)

\* C2: every bookmark whose enrichment_status is failed has a non-null
\* enrichment_error of at most 500 characters.
C2_FailedHasError ==
  \A b \in BookmarkIds :
    Failed(b) => /\ ~IsNone(bookmarks[b].enrichment_error)
                 /\ Val(bookmarks[b].enrichment_error).len <= 500

\* C2 witness: after a retry and a cancellation, one bookmark failed by the
\* cancellation checkpoint and another by the handler
C2_Witness ==
  /\ retries > 0
  /\ \E j \in JobIds : import_jobs[j].last_error = "Manually canceled"
  /\ \E b \in BookmarkIds : Failed(b) /\ bookmarks[b].enrichment_error = Some(JobCanceledMsg)
  /\ \E b \in BookmarkIds : Failed(b) /\ bookmarks[b].enrichment_error = Some(TypeErrorExc)

\* C3: enrichment_status changes only along pending->processing,
\* processing->completed, processing->failed and failed->pending, and
\* failed->pending only in a step of retry_enrichment.
AllowedStatusSteps ==
  { <<"pending", "processing">>, <<"processing", "completed">>,
    <<"processing", "failed">>, <<"failed", "pending">> }

C3_StatusMachine ==
  [][\A b \in BookmarkIds :
       LET from == bookmarks[b].enrichment_status
           to == bookmarks'[b].enrichment_status
       IN from # to =>
            /\ <<from, to>> \in AllowedStatusSteps
            /\ (<<from, to>> = <<"failed", "pending">> => retries' = retries + 1)]_vars

\* C4: once stop_import_job has canceled a job while a run of one of its
\* items was past the second cancellation checkpoint, the job's status is
\* canceled from then on, and no worker that takes a task of the job from
\* the queue begins to process it.
C4_CanceledIsFinal ==
  [][\A j \in stopped_mid :
       /\ import_jobs'[j].status = "canceled"
       /\ (queue # <<>> /\ queue' = Tail(queue) /\ Head(queue).job = j)
            => workers' = workers]_vars

\* the runs of job j are over: none queued, none in a worker
JobQuiet(j) ==
  /\ \A k \in DOMAIN queue : queue[k].job # j
  /\ \A w \in Workers : workers[w].job # j

\* C5: once every enqueued item of a job that was never canceled, with
\* enqueue_enrich_count > 0, has finished its run (completed or failed) and
\* the workers are done with the job, the job's status is completed.
C5_FinishedJobCompleted ==
  \A j \in JobIds :
    ( /\ JobQuiet(j)
      /\ JobDistinctUrls(j)
      /\ import_jobs[j].last_error = NULL
      /\ import_jobs[j].enqueue_enrich_count > 0
      /\ \A i \in JobItems(j) : items[i].status \in {"completed", "failed"} )
    => import_jobs[j].status = "completed"

\* C6: whenever no worker is in (or about to enter) _increment_import_job for
\* a job (of a batch of different URLs), enrich_completed is the number of
\* its items that ended completed and enrich_failed the number that ended
\* failed.
C6_CountersExact ==
  \A j \in JobIds :
    ( /\ JobDistinctUrls(j)
      /\ \A w \in Workers : workers[w].job = j => workers[w].pc \notin {"incr_read", "incr_write"} )
    => /\ OrZero(import_jobs[j].enrich_completed)
            = Cardinality({i \in JobItems(j) : items[i].status = "completed"})
       /\ OrZero(import_jobs[j].enrich_failed)
            = Cardinality({i \in JobItems(j) : items[i].status = "failed"})

\* C7: a run that finds its batch canceled, at the first checkpoint or at the
\* second, ends there with its item canceled and its bookmark failed.
C7_CancelLeavesFailed ==
  [][/\ CanceledAtStart =>
          /\ bookmarks'[Head(queue).bid].enrichment_status = "failed"
          /\ Head(queue).item # NOID => items'[Head(queue).item].status = "canceled"
     /\ \A w \in Workers :
          (workers[w].pc = "cancel2" /\ workers'[w].pc # "cancel2") =>
            /\ bookmarks'[workers[w].bid].enrichment_status = "failed"
            /\ workers[w].item # NOID => items'[workers[w].item].status = "canceled"
            /\ workers'[w].pc = "idle"]_vars

\* C8: the run that follows a retry of a failed bookmark, when the chat
\* service answers with well-formed JSON, writes enrichment_status completed
\* and enrichment_error null, whatever the extractor did.
C8_RetryThenSuccess ==
  [][\A w \in Workers :
       (SynthStep(w) /\ workers[w].src = "retry_failed" /\ chat = "json") =>
         /\ bookmarks'[workers[w].bid].enrichment_status = "completed"
         /\ IsNone(bookmarks'[workers[w].bid].enrichment_error)]_vars

\* C9: when the Synthesizer call of a run raises, the run's write sets
\* enrichment_status failed and enrichment_error to "Type: text" cut to 500
\* characters and changes no other field of the bookmark, and the rest of
\* the run (the item's and the job's progress) leaves the bookmark alone.
StatusFields == {"enrichment_status", "enrichment_error"}

C9_SynthFailureWrite ==
  [][\A w \in Workers :
       /\ (SynthStep(w)
            /\ EnrichBookmarkCall(SynthCallKwargs, chat, workers[w].original_title).raised) =>
            LET e == EnrichBookmarkCall(SynthCallKwargs, chat, workers[w].original_title).exc
                before == bookmarks[workers[w].bid]
                after == bookmarks'[workers[w].bid]
            IN /\ after.enrichment_status = "failed"
               /\ after.enrichment_error = Some([msg |-> e.msg, len |-> Min(e.len, 500)])
               /\ \A f \in (DOMAIN before) \ StatusFields : after[f] = before[f]
               /\ \A b \in BookmarkIds \ {workers[w].bid} : bookmarks'[b] = bookmarks[b]
       /\ (workers[w].pc \in {"incr_read", "incr_write"} /\ workers'[w] # workers[w]) =>
            bookmarks' = bookmarks]_vars

\* C9 witness: a bookmark created with a description has failed with the
\* Synthesizer's error while its title and description are as created
C9_Witness ==
  \E b \in BookmarkIds :
    /\ Failed(b)
    /\ bookmarks[b].enrichment_error = Some(TypeErrorExc)
    /\ bookmarks[b].clean_title = "desc line"
    /\ bookmarks[b].user_description = "desc line"
    /\ bookmarks[b].ai_summary = NULL

\* the bookmark the run of worker w is about
RunOf(w) == workers[w].bid

\* C11: when the chat-completion service answers with a well-formed JSON
\* object, the run's step through the Synthesizer call leaves the bookmark
\* completed, whichever model variant the task carries.
C11_SynthesisCompletes ==
  [][\A w \in Workers :
       (SynthStep(w) /\ chat = "json")
         => bookmarks'[RunOf(w)].enrichment_status = "completed"]_vars

\* C12: when synthesis succeeds the bookmark is completed, with the advisory
\* enrichment_error if the extraction gave no content and with no
\* enrichment_error if the extraction or the user description gave content.
C12_AdvisoryIffNoContent ==
  [][\A w \in Workers :
       (SynthStep(w) /\ chat = "json")
         => \E x \in ExtractOutcomes :
              /\ bookmarks'[RunOf(w)].enrichment_status = "completed"
              /\ bookmarks'[RunOf(w)].enrichment_error =
                   IF IsNone(RunExtracted(w, x).content)
                     THEN Some(AdvisoryMsg) ELSE None]_vars

\* a step of import_bookmarks: it creates the job row
ImportStep == Len(import_jobs') = Len(import_jobs) + 1
NewBookmarkIds == (Len(bookmarks) + 1)..Len(bookmarks')

\* C13: an import inserts no bookmark whose URL was already stored and
\* answers skipped = the number of candidates already stored, imported = the
\* number of the others, the two adding up to the total.
C13_ImportCounts ==
  [][ImportStep =>
       LET job == import_jobs'[Len(import_jobs')]
           r == import_response'
       IN /\ \A b \in NewBookmarkIds : ~UrlExists(bookmarks'[b].url)
          /\ r.status = 202
          /\ r.skipped = r.skipped_count
          /\ r.imported = job.total - r.skipped_count
          /\ r.imported = Cardinality(NewBookmarkIds)
          /\ r.imported + r.skipped = job.total]_vars

\* C14: once an import has answered, its job has exactly one item for each
\* bookmark it inserted for enrichment and none for any other bookmark, and
\* every task it submitted carries the item of the task's own bookmark.
C14_OneItemPerEnrichedBookmark ==
  /\ \A j \in JobIds :
        /\ \A b \in BookmarkIds :
              bookmarks[b].import_job_id = j
                => Cardinality({i \in JobItems(j) : items[i].bookmark_id = b}) = 1
        /\ \A i \in JobItems(j) : bookmarks[items[i].bookmark_id].import_job_id = j
  /\ \A k \in DOMAIN queue :
        queue[k].item # NOID => items[queue[k].item].bookmark_id = queue[k].bid

\* C15: every import of a batch with a valid candidate answers the summary
\* and leaves the job with its counters written, and completed when nothing
\* was queued for enrichment.
C15_ImportAnswersSummary ==
  [][ImportStep =>
       LET job == import_jobs'[Len(import_jobs')]
           r == import_response'
       IN /\ r.status = 202
          /\ r.job_id = Len(import_jobs')
          /\ job.imported_count = r.imported
          /\ job.skipped_count = r.skipped
          /\ job.enqueue_enrich_count = r.enrichment_queued
          /\ (r.enrichment_queued = 0 => job.status = "completed")]_vars

\* the run of worker w leaves the Synthesizer call by an exception
SynthRaises(w) == SynthStep(w) /\ workers'[w].pc # "embed"

\* the run of worker w ends with the write of _increment_import_job(failed)
FailedRunEnds(w) ==
  /\ workers[w].pc = "incr_write"
  /\ workers[w].outcome = "failed"
  /\ workers'[w].pc = "idle"

\* C16: a run in which the Synthesizer raises ends inside the job: the
\* bookmark is failed with an error text, the import item (if any) is failed,
\* and the job's enrich_failed is one more than before the run ended.
C16_FailureIsRecorded ==
  [][\A w \in Workers :
       /\ SynthRaises(w)
            => /\ bookmarks'[RunOf(w)].enrichment_status = "failed"
               /\ ~IsNone(bookmarks'[RunOf(w)].enrichment_error)
               /\ workers[w].item # NOID
                    => items'[workers[w].item].status = "failed"
       /\ FailedRunEnds(w)
            => import_jobs'[workers[w].job].enrich_failed
                 = OrZero(import_jobs[workers[w].job].enrich_failed) + 1]_vars

\* the closed sets and the bounds of a validated record, as the code cuts it
WithinBounds(v) ==
  /\ v.clean_title.len <= 60
  /\ v.ai_summary.len <= 500
  /\ Len(v.auto_tags) <= 5
  /\ \A k \in DOMAIN v.auto_tags : Hyphenate(Lower(v.auto_tags[k])) = v.auto_tags[k]
  /\ v.intent_type \in IntentTypes
  /\ v.technical_level \in TechnicalLevels
  /\ v.content_type \in ContentTypes
  /\ Len(v.key_quotes) <= 3
  /\ \A k \in DOMAIN v.key_quotes : v.key_quotes[k].len <= 300

\* C17: for every text the model can answer, enrich_bookmark raises nothing
\* and returns a record whose enum fields are in their closed sets and whose
\* lengths and counts are within bounds.
C17_ValidationTotal ==
  (synth_call.pc # "none" /\ synth_call.answer.kind # "no_text") =>
    /\ synth_call.pc # "raised"
    /\ synth_call.pc = "returned" => WithinBounds(synth_call.result.validated)

\* C18: every completed bookmark has between 1 and 5 auto_tags, each
\* lowercase and without spaces, whichever path completed it.
C18_CompletedTags ==
  \A b \in BookmarkIds :
    Completed(b) =>
      /\ ~IsNone(bookmarks[b].auto_tags)
      /\ Len(Val(bookmarks[b].auto_tags)) \in 1..5
      /\ \A k \in DOMAIN Val(bookmarks[b].auto_tags) :
            NormTag(Val(bookmarks[b].auto_tags)[k]) = Val(bookmarks[b].auto_tags)[k]

\* C19: every record enrich_bookmark returns has a clean_title of at most
\* 60 characters and an ai_summary of at most 220 characters.
C19_StringLengths ==
  synth_call.pc = "returned" =>
    /\ synth_call.result.validated.clean_title.len <= 60
    /\ synth_call.result.validated.ai_summary.len <= 220

\* the strategies of the call that failed
JinaFailed == extract_call.jina_key /\ JinaFails(extract_call.jina)
PageFailed == PageFails(extract_call.page)

\* the result of the call had only the given strategies been submitted
ResultOf(strategies) ==
  LET base == [EmptyResult EXCEPT !.domain = ParseDomain(extract_call.url)]
      one == IF "jina" \in strategies
               THEN Merge(base, _extract_via_jina(extract_call.jina)) ELSE base
      two == IF "beautifulsoup" \in strategies
               THEN Merge(one, _extract_via_beautifulsoup(extract_call.url, extract_call.page))
               ELSE one
  IN FaviconFallback(two)

Submitted == IF extract_call.jina_key THEN {"jina", "beautifulsoup"} ELSE {"beautifulsoup"}

C21_MergePrefersReader ==
  (extract_call.pc = "returned" /\ extract_call.jina_key) =>
    LET reader == _extract_via_jina(extract_call.jina)
        page == _extract_via_beautifulsoup(extract_call.url, extract_call.page)
        r == extract_call.result
    IN /\ \A key \in {"title", "description", "content", "thumbnail_url"} :
            r[key] = IF TruthyOpt(reader[key]) THEN reader[key]
                     ELSE IF TruthyOpt(page[key]) THEN page[key] ELSE None
       /\ (TruthyOpt(reader.content) \/ TruthyOpt(page.content)) => TruthyOpt(r.content)
       /\ r = ResultOf(Submitted)

RECURSIVE SumOver(_, _)
SumOver(f, S) ==
  IF S = {} THEN 0
  ELSE LET e == CHOOSE e \in S : TRUE IN f[e] + SumOver(f, S \ {e})

\* C22: at most 3 enrichment jobs execute at any moment, and one worker
\* pool is created, whatever the interleaving of the request threads.
C22_OnePoolOfThree ==
  pool.pc = "serving" =>
    /\ pool.created <= 1
    /\ SumOver(pool.running, Requests) <= 3

\* C22 (the count alone): never more than max_workers jobs executing
C22_AtMostThreeRunning ==
  pool.pc = "serving" => SumOver(pool.running, Requests) <= max_workers

\* the request of a step of create_bookmark, and what the step did
CreateStep == create_call'.pc = "answered" /\ (create_call' # create_call \/ bookmarks' # bookmarks)
CreateInserted == Len(bookmarks') = Len(bookmarks) + 1
CreateSubmitted == queue' # queue
CreateRejected ==
  \/ create_call'.data.kind \in {"no_body", "no_url"}
  \/ ~ValidUrl(create_call'.data.url.text)
  \/ UrlExists(create_call'.data.url.text)

\* C23: create_bookmark submits exactly one job exactly when it inserted a
\* new bookmark that is not pre-enriched, the job is for the inserted record;
\* a request without a url, with an invalid url or with a stored url inserts
\* nothing and submits nothing.
C23_CreateSubmitsOnce ==
  [][CreateStep =>
       /\ CreateInserted \/ bookmarks' = bookmarks
       /\ CreateSubmitted <=> (CreateInserted /\ ~IsPreEnriched(create_call'.data.payload))
       /\ CreateSubmitted =>
            /\ queue' = Append(queue, Task(Len(bookmarks'), FALSE, NOID, NOID, "create"))
            /\ bookmarks'[Len(bookmarks')].url = create_call'.data.url.text
            /\ create_call'.status = 201
       /\ CreateRejected => (bookmarks' = bookmarks /\ queue' = queue /\ create_call'.status # 201)
  ]_vars

\* a job was submitted for a new bookmark, a pre-enriched one was inserted
\* without a job, and the last request was rejected for its stored url
C23_Witness ==
  /\ create_call.pc = "answered"
  /\ create_call.status = 200
  /\ Len(bookmarks) = 2
  /\ Len(queue) = 1
  /\ \E b \in BookmarkIds : bookmarks[b].enrichment_status = "completed"

\* C24: no two bookmark records have the same url, after any sequence of
\* create_bookmark and import_bookmarks requests, a batch that lists one url
\* twice included.
C24_UrlUnique ==
  \A a, b \in BookmarkIds : a # b => bookmarks[a].url # bookmarks[b].url

\* the steps of an item's status: the worker's, and those of a skip, a stop
\* or a cancellation checkpoint
ItemStatusSteps ==
  { <<"pending", "processing">>, <<"processing", "completed">>, <<"processing", "failed">>,
    <<"pending", "skipped">>, <<"processing", "skipped">>,
    <<"pending", "canceled">>, <<"processing", "canceled">> }

\* C25: an import item's status changes only along pending -> processing ->
\* {completed, failed}, or from pending or processing to skipped or canceled;
\* a skipped or canceled item is never moved to processing, completed or
\* failed.
C25_ItemStatusMachine ==
  [][\A i \in ItemIds :
       \/ items'[i].status = items[i].status
       \/ <<items[i].status, items'[i].status>> \in ItemStatusSteps]_vars

\* C26: a run that fetched a bookmark whose user_description is set goes to
\* the Synthesizer call without the extractor, and the call's content
\* argument is that description.
C26_DescriptionIsContent ==
  [][\A w \in Workers :
       (workers[w].pc = "fetch" /\ workers'[w].pc # "fetch"
          /\ PyOr(bookmarks[workers[w].bid].user_description, NULL) # NULL) =>
         /\ workers'[w].pc = "synth"
         /\ ~workers'[w].scrape
         /\ \A x \in ExtractOutcomes :
              ContentArg(workers'[w], x) = bookmarks[workers[w].bid].user_description]_vars

\* a run is at its Synthesizer call with a description and without scraping
C26_Witness ==
  \E w \in Workers :
    /\ workers[w].pc = "synth"
    /\ ~workers[w].scrape
    /\ workers[w].user_description = "desc line"
    /\ bookmarks[workers[w].bid].user_description = "desc line"

\* the bookmark ids of the jobs a step has added to the queue
NewlyQueued == { queue'[k].bid : k \in (Len(queue) + 1)..Len(queue') }

C28_CountsBeforeSubmit ==
  [][/\ \A k \in (Len(queue) + 1)..Len(queue') :
          queue'[k].job # NOID =>
            /\ import_jobs[queue'[k].job].enqueue_enrich_count > 0
            /\ import_jobs[queue'[k].job].status = "processing"
     /\ \A w \in Workers :
          (workers[w].pc = "incr_read" /\ workers'[w].pc = "incr_write") =>
            workers'[w].enqueue_count > 0]_vars

\* a worker has read the job's counts while the request is still submitting
C28_Witness ==
  /\ import_call.pc = "submit"
  /\ \E w \in Workers : workers[w].pc = "incr_write" /\ workers[w].enqueue_count = 2

\* C29: at most one run of _enrich_bookmark is in progress for a bookmark id
\* at any time.
C29_OneRunPerBookmark ==
  \A v, w \in Workers :
    (v # w /\ workers[v].pc # "idle" /\ workers[w].pc # "idle") =>
      workers[v].bid # workers[w].bid

\* C30: an item that a worker moved to processing and that has finished has
\* both started_at and finished_at; finishing leaves started_at as written
\* at the processing step.
C30_FinishedKeepsStartedAt ==
  [][\A i \in ItemIds :
       (items[i].status = "processing"
          /\ items'[i].status \in {"completed", "failed", "canceled"}) =>
         /\ items'[i].finished_at # NULL
         /\ items'[i].started_at = items[i].started_at
         /\ items'[i].started_at # NULL]_vars

====
